---- MODULE Spec2Model ----
(***************************************************************************)
(* vanilla.List (Lib/vanilla/vanillaList.py): the sorted/unsorted index    *)
(* reconciliation, the selection API and the key handler with its          *)
(* type-ahead search.                                                      *)
(*                                                                         *)
(* Indexes are Python indexes (0-based); At(s, i) reads a sequence the way *)
(* s[i] does in the source.  A string is a sequence of code points, an     *)
(* item is the wrapper dictionary _wrapItem builds around one value: the   *)
(* record [id, item], where id is the address of the wrapper (every        *)
(* wrapped value gets a wrapper of its own) and item is the value stored   *)
(* under the column key.                                                   *)
(***************************************************************************)
EXTENDS Integers, Sequences, FiniteSets, TLC

VARIABLES
    content,            \* self._arrayController.content(): the logical order
    sortDescriptors,    \* self._arrayController.sortDescriptors()
    selectionIndexes,   \* the selected rows, indexes into the arranged objects
    fieldEditor,        \* the string of the window's field editor
    lastInputTime,      \* self._lastInputTime
    now,                \* the time of the last event, in quarters of a second
    enableDelete,       \* self._enableDelete
    typingSensitive,    \* self._typingSensitive
    editCallback,       \* self._editCallback is not None
    typedInto,          \* the characters this list was sent, the latest ones
    otherList,          \* the other list of the window, if there is one
    ret                 \* the last operation, its arguments and what it returned

vars == <<content, sortDescriptors, selectionIndexes, fieldEditor, lastInputTime,
          now, enableDelete, typingSensitive, editCallback, typedInto, otherList, ret>>

\* The settings made at construction.
settings == <<enableDelete, typingSensitive>>

\* The state of the type-ahead search.
typing == <<fieldEditor, lastInputTime, typedInto>>

\* What otherList is in a window that holds this list alone.
NoOtherList == [content |-> <<>>]

---------------------------------------------------------------------------
(* Bounds *)

MaxItems == 3
MaxIndexes == 2
MaxInputLength == 2
MaxTime == 5

---------------------------------------------------------------------------
(* Values *)

None == -1

Str(chars) == [type |-> "str", chars |-> chars]
Number == [type |-> "num", chars |-> <<>>]

\* What stands for the value of an item that has no value under the key of
\* the column: a dictionary without that key.
Missing == [type |-> "missing", chars |-> <<>>]

\* item[columnID] raises KeyError.
hasColumn(value) == value.type # "missing"

isString(value) == value.type = "str"

At(s, index) == s[index + 1]

xrange(n) == 0 .. (n - 1)

Range(s) == {s[i] : i \in 1 .. Len(s)}

RECURSIVE StrLess(_, _)
StrLess(a, b) ==
    IF b = <<>> THEN FALSE
    ELSE IF a = <<>> THEN TRUE
    ELSE IF Head(a) < Head(b) THEN TRUE
    ELSE IF Head(a) > Head(b) THEN FALSE
    ELSE StrLess(Tail(a), Tail(b))

startswith(item, prefix) ==
    /\ Len(prefix) <= Len(item)
    /\ SubSeq(item, 1, Len(prefix)) = prefix

\* The strings of the model: the non-empty strings over {1, 2} of at most two
\* characters.
Strings == {<<1>>, <<2>>, <<1, 1>>, <<1, 2>>, <<2, 1>>, <<2, 2>>}

\* A collection of at most MaxItems freshly wrapped values: the item at
\* position k is the k-th wrapper made.
Wrap(values) == [k \in 1 .. Len(values) |-> [id |-> k, item |-> values[k]]]

SeqsUpTo(S, n) == UNION {[1 .. k -> S] : k \in 0 .. n}

Collections(values) == {Wrap(v) : v \in SeqsUpTo(values, MaxItems)}

\* The sort specifications: none, ascending, descending on the column.
SortSpecifications == {<<>>, <<TRUE>>, <<FALSE>>}

---------------------------------------------------------------------------
(* The arranged (displayed) order *)

\* compare: of the column's values of two items.  A sort is applied to
\* collections of strings only: values of mixed types do not compare.
compareValues(a, b) ==
    IF StrLess(a.chars, b.chars) THEN -1
    ELSE IF StrLess(b.chars, a.chars) THEN 1
    ELSE 0

RECURSIVE compareUsingDescriptors(_, _, _)
compareUsingDescriptors(a, b, descriptors) ==
    IF descriptors = <<>> THEN 0
    ELSE LET c == compareValues(a.item, b.item)
             r == IF Head(descriptors) THEN c ELSE 0 - c
         IN  IF r # 0 THEN r
             ELSE compareUsingDescriptors(a, b, Tail(descriptors))

RECURSIVE insertSorted(_, _, _)
insertSorted(obj, sorted, descriptors) ==
    IF sorted = <<>> THEN <<obj>>
    ELSE IF compareUsingDescriptors(Head(sorted), obj, descriptors) <= 0
    THEN <<Head(sorted)>> \o insertSorted(obj, Tail(sorted), descriptors)
    ELSE <<obj>> \o sorted

RECURSIVE sortedArrayUsingDescriptors(_, _)
sortedArrayUsingDescriptors(array, descriptors) ==
    IF array = <<>> THEN <<>>
    ELSE insertSorted(array[Len(array)],
                      sortedArrayUsingDescriptors(SubSeq(array, 1, Len(array) - 1),
                                                  descriptors),
                      descriptors)

arrangedObjects == sortedArrayUsingDescriptors(content, sortDescriptors)

---------------------------------------------------------------------------
(* Sorted/unsorted index conversion *)

Return(value) == [raised |-> FALSE, value |-> value]
IndexError == [raised |-> TRUE, value |-> <<>>]

\* A variant of objectKey that keys an object by its value alone.
objectKeyByValue(obj) == <<0, obj.item>>

\* (id(obj), obj)
objectKey(obj) == <<obj.id, obj>>

\* The scan loop: the indexes of array whose object is among objects, each
\* object struck out once it is found, stopping when none is left.
RECURSIVE scanForObjects(_, _, _, _)
scanForObjects(array, index, objects, indexes) ==
    IF index >= Len(array) THEN indexes
    ELSE LET test == objectKey(At(array, index))
             found == test \in objects
             indexes2 == IF found THEN Append(indexes, index) ELSE indexes
             objects2 == IF found THEN objects \ {test} ELSE objects
         IN  IF objects2 = {} THEN indexes2
             ELSE scanForObjects(array, index + 1, objects2, indexes2)

\* A variant of _getUnsortedIndexesFromSortedIndexes without the early return
\* on an empty sort specification.
_getUnsortedIndexesAlwaysScanning(indexes) ==
    LET unsortedArray == content
        sortedArray == sortedArrayUsingDescriptors(unsortedArray, sortDescriptors)
    IN  IF \E i \in 1 .. Len(indexes) : indexes[i] \notin xrange(Len(sortedArray))
        THEN IndexError
        ELSE LET sortedObjects ==
                     {objectKey(At(sortedArray, indexes[i])) : i \in 1 .. Len(indexes)}
             IN  Return(scanForObjects(unsortedArray, 0, sortedObjects, <<>>))

_getUnsortedIndexesFromSortedIndexes(indexes) ==
    IF sortDescriptors = <<>> THEN Return(indexes)
    ELSE LET unsortedArray == content
             sortedArray == sortedArrayUsingDescriptors(unsortedArray, sortDescriptors)
         IN  IF \E i \in 1 .. Len(indexes) : indexes[i] \notin xrange(Len(sortedArray))
             THEN IndexError
             ELSE LET sortedObjects ==
                          {objectKey(At(sortedArray, indexes[i])) : i \in 1 .. Len(indexes)}
                  IN  Return(scanForObjects(unsortedArray, 0, sortedObjects, <<>>))

\* A variant of _getSortedIndexesFromUnsortedIndexes that takes the logical
\* indexes for displayed ones.
_getSortedIndexesIgnoringSort(indexes) == Return(indexes)

_getSortedIndexesFromUnsortedIndexes(indexes) ==
    IF sortDescriptors = <<>> THEN Return(indexes)
    ELSE LET unsortedArray == content
             sortedArray == sortedArrayUsingDescriptors(unsortedArray, sortDescriptors)
         IN  IF \E i \in 1 .. Len(indexes) : indexes[i] \notin xrange(Len(unsortedArray))
             THEN IndexError
             ELSE LET unsortedObjects ==
                          {objectKey(At(unsortedArray, indexes[i])) : i \in 1 .. Len(indexes)}
                  IN  Return(scanForObjects(sortedArray, 0, unsortedObjects, <<>>))

\* The index lists handed to the reconciler: at most MaxIndexes indexes, in
\* any order, repeated or not, valid or one past the longest collection.
IndexLists == SeqsUpTo(0 .. MaxItems, MaxIndexes)

\* No call is in progress and no result is held.
Idle == [op |-> "none"]

\* The caller drops the result of the last operation.
Forget ==
    /\ ret # Idle
    /\ ret' = Idle
    /\ UNCHANGED <<content, sortDescriptors, selectionIndexes, typing, now, settings, editCallback, otherList>>

\* A call of _getUnsortedIndexesFromSortedIndexes(indexes).
ToLogicalIndexes(indexes) ==
    /\ ret = Idle
    /\ ret' = [op |-> "toLogical", arg |-> indexes,
               result |-> _getUnsortedIndexesFromSortedIndexes(indexes)]
    /\ UNCHANGED <<content, sortDescriptors, selectionIndexes, typing, now, settings, editCallback, otherList>>

\* A call of _getSortedIndexesFromUnsortedIndexes(indexes).
ToDisplayedIndexes(indexes) ==
    /\ ret = Idle
    /\ ret' = [op |-> "toDisplayed", arg |-> indexes,
               result |-> _getSortedIndexesFromUnsortedIndexes(indexes)]
    /\ UNCHANGED <<content, sortDescriptors, selectionIndexes, typing, now, settings, editCallback, otherList>>

\* The result of the last displayed-to-logical conversion handed back to
\* _getSortedIndexesFromUnsortedIndexes, nothing having happened in between.
ConvertBack ==
    /\ ret.op = "toLogical"
    /\ ~ret.result.raised
    /\ ret' = [op |-> "roundTrip", arg |-> ret.arg, logical |-> ret.result.value,
               result |-> _getSortedIndexesFromUnsortedIndexes(ret.result.value)]
    /\ UNCHANGED <<content, sortDescriptors, selectionIndexes, typing, now, settings, editCallback, otherList>>

ReconcileValues == {Str(<<1>>), Str(<<1, 2>>), Str(<<2>>)}

InitReconcile ==
    /\ content \in Collections(ReconcileValues)
    /\ sortDescriptors \in SortSpecifications
    /\ selectionIndexes = {}
    /\ fieldEditor = <<>>
    /\ lastInputTime = None
    /\ now = 0
    /\ enableDelete = FALSE
    /\ typingSensitive = FALSE
    /\ editCallback = FALSE
    /\ typedInto = <<>>
    /\ otherList = NoOtherList
    /\ ret = Idle

NextReconcile ==
    \/ \E indexes \in IndexLists : ToLogicalIndexes(indexes)
    \/ \E indexes \in IndexLists : ToDisplayedIndexes(indexes)
    \/ ConvertBack
    \/ Forget

SpecReconcile == InitReconcile /\ [][NextReconcile]_vars

---------------------------------------------------------------------------
(* Selection *)

\* The indexes of an index set, ascending.
RECURSIVE _iterIndexSet(_)
_iterIndexSet(s) ==
    IF s = {} THEN <<>>
    ELSE LET i == CHOOSE x \in s : \A y \in s : x <= y
         IN  <<i>> \o _iterIndexSet(s \ {i})

getSelection ==
    LET selectedRowIndexes == selectionIndexes
    IN  IF selectedRowIndexes = {} THEN Return(<<>>)
        ELSE _getUnsortedIndexesFromSortedIndexes(_iterIndexSet(selectedRowIndexes))

\* The index set handed to setSelectionIndexes_: the converted indexes are
\* computed, the index set is filled from the argument.
setSelection(selection) ==
    LET indexes == _getSortedIndexesFromUnsortedIndexes(selection)
        indexSet == Range(selection)
    IN  IF indexes.raised THEN IndexError ELSE Return(indexSet)

\* removeObjects_: the array without the objects given.
removeObjects(array, items) == SelectSeq(array, LAMBDA obj : obj \notin items)

\* A variant of _removeSelection that reads the selected rows as logical
\* indexes.
_removeSelectedRows ==
    removeObjects(content, {At(content, index) : index \in selectionIndexes})

\* The items of _removeSelection: the objects at the selected indexes.
selectedItems ==
    LET selection == getSelection.value
    IN  {At(content, selection[i]) : i \in 1 .. Len(selection)}

\* The content after _removeSelection.
_removeSelection == removeObjects(content, selectedItems)

\* A call of setSelection(selection) with valid indexes.
SetSelection(selection) ==
    /\ Range(selection) \subseteq xrange(Len(content))
    /\ LET indexSet == setSelection(selection)
       IN  /\ selectionIndexes' = IF indexSet.raised THEN selectionIndexes
                                  ELSE indexSet.value
           /\ ret' = [op |-> "setSelection", arg |-> selection,
                      raised |-> indexSet.raised]
    /\ UNCHANGED <<content, sortDescriptors, typing, now, settings, editCallback, otherList>>

\* A call of getSelection().
GetSelection ==
    /\ ret' = [op |-> "getSelection", result |-> getSelection]
    /\ UNCHANGED <<content, sortDescriptors, selectionIndexes, typing, now, settings, editCallback, otherList>>

---------------------------------------------------------------------------
(* The items *)

\* get(): the values of the items, in the logical order.
get == [i \in 1 .. Len(content) |-> content[i].item]

\* What list.index(x) and list.remove(x) raise when x is not in the list.
ValueError == [raised |-> TRUE, value |-> <<>>]

\* removeObjectAtArrangedObjectIndex_: the content without the object shown
\* in the row index.
removeObjectAtArrangedObjectIndex(index) ==
    removeObjects(content, {At(arrangedObjects, index)})

\* The rows the array controller selects once the content is newContent: it
\* keeps the selected objects that are still there selected.
rowsOfSelectedObjects(newContent) ==
    LET array == sortedArrayUsingDescriptors(newContent, sortDescriptors)
        selected == {At(arrangedObjects, row) :
                        row \in selectionIndexes \cap xrange(Len(content))}
    IN  {row \in xrange(Len(array)) : At(array, row) \in selected}

\* A variant of __delitem__ that takes index for the row shown.
_delitemAtRow(index) ==
    IF index \notin xrange(Len(content)) THEN IndexError
    ELSE Return(removeObjectAtArrangedObjectIndex(index))

\* __delitem__(index): the content afterwards, or the exception of an index
\* outside the collection.
__delitem__(index) ==
    LET indexes == _getSortedIndexesFromUnsortedIndexes(<<index>>)
    IN  IF indexes.raised \/ indexes.value[1] \notin xrange(Len(content))
        THEN IndexError
        ELSE Return(removeObjectAtArrangedObjectIndex(indexes.value[1]))

\* index(item): content().index(wrapper), the first index whose wrapper
\* equals a wrapper of item.
indexOf(item) ==
    LET equal == {i \in xrange(Len(content)) : At(content, i).item = item}
    IN  IF equal = {} THEN ValueError
        ELSE Return(CHOOSE i \in equal : \A j \in equal : i <= j)

\* remove(item)
remove(item) ==
    LET found == indexOf(item)
    IN  IF found.raised THEN ValueError ELSE __delitem__(found.value)

\* A call of del list[index].
DelItem(index) ==
    /\ LET result == __delitem__(index)
       IN  /\ content' = IF result.raised THEN content ELSE result.value
           /\ selectionIndexes' = IF result.raised THEN selectionIndexes
                                  ELSE rowsOfSelectedObjects(result.value)
           /\ ret' = [op |-> "delitem", arg |-> index, raised |-> result.raised]
    /\ UNCHANGED <<sortDescriptors, typing, now, settings, editCallback, otherList>>

\* A call of list.remove(item).
Remove(item) ==
    /\ LET result == remove(item)
       IN  /\ content' = IF result.raised THEN content ELSE result.value
           /\ selectionIndexes' = IF result.raised THEN selectionIndexes
                                  ELSE rowsOfSelectedObjects(result.value)
           /\ ret' = [op |-> "remove", arg |-> item, raised |-> result.raised]
    /\ UNCHANGED <<sortDescriptors, typing, now, settings, editCallback, otherList>>

\* The content with value stored in the item at index.
setValue(index, value) == [content EXCEPT ![index + 1].item = value]

\* A call of list[index] = value.  The edit callback is taken away, the item
\* is looked up, which raises IndexError for an index outside the
\* collection, the value is stored, which reaches _edit and finds no
\* callback, and the edit callback is put back.
SetItem(index, value) ==
    /\ IF index \in xrange(Len(content))
       THEN /\ content' = setValue(index, value)
            /\ UNCHANGED editCallback
            /\ ret' = [op |-> "setitem", arg |-> index, raised |-> FALSE, called |-> FALSE]
       ELSE /\ UNCHANGED content
            /\ editCallback' = FALSE
            /\ ret' = [op |-> "setitem", arg |-> index, raised |-> TRUE, called |-> FALSE]
    /\ UNCHANGED <<sortDescriptors, selectionIndexes, typing, now, settings, otherList>>

\* _edit(): whether the edit callback is called.
_edit == editCallback

\* The user edits the cell of the item at index: the observer of the array
\* controller calls its target method, _edit.
UserEdit(index, value) ==
    /\ index \in xrange(Len(content))
    /\ content' = setValue(index, value)
    /\ ret' = [op |-> "edit", arg |-> index, called |-> _edit]
    /\ UNCHANGED <<sortDescriptors, selectionIndexes, typing, now, settings,
                   editCallback, otherList>>

---------------------------------------------------------------------------
(* The key handler *)

\* 0.75 s, in quarters of a second
IdleTimeout == 3

\* The characters() of a printable key event.
Characters == {<<1>>, <<2>>}

\* Variants of isTooLongAgo, isMoreRelevant and isCloser.
isTooLongAgoInclusive(rightNow, last) == rightNow - last >= IdleTimeout
isMoreRelevantOrEqual(item, match) == ~StrLess(match, item)
isCloserReversed(lastResort, item) == StrLess(lastResort, item)

\* rightNow - self._lastInputTime > 0.75
isTooLongAgo(rightNow, last) == rightNow - last > IdleTimeout

\* item < match
isMoreRelevant(item, match) == StrLess(item, match)

\* lastResort > item
isCloser(lastResort, item) == StrLess(item, lastResort)

\* match, matchIndex, lastResort and lastResortIndex before the scan; match
\* and lastResort are None exactly when their index is.  raised tells that
\* the scan ended with an exception.
NoMatch ==
    [match |-> <<>>, matchIndex |-> None, lastResort |-> <<>>, lastResortIndex |-> None,
     raised |-> FALSE]

\* The scan of the items from index on.
RECURSIVE findMatch(_, _, _)
findMatch(inputString, index, found) ==
    IF index >= Len(content) THEN found
    ELSE LET item == At(content, index).item
         IN  IF ~hasColumn(item)
             THEN [found EXCEPT !.raised = TRUE]
             ELSE IF ~isString(item)
             THEN findMatch(inputString, index + 1, found)
             ELSE IF startswith(item.chars, inputString) /\ found.matchIndex = None
             THEN findMatch(inputString, index + 1,
                            [found EXCEPT !.match = item.chars, !.matchIndex = index])
             ELSE IF startswith(item.chars, inputString)
                     /\ isMoreRelevant(item.chars, found.match)
             THEN findMatch(inputString, index + 1,
                            [found EXCEPT !.match = item.chars, !.matchIndex = index])
             ELSE IF StrLess(inputString, item.chars)
                     /\ (\/ found.lastResortIndex = None
                         \/ isCloser(found.lastResort, item.chars))
             THEN findMatch(inputString, index + 1,
                            [found EXCEPT !.lastResort = item.chars,
                                          !.lastResortIndex = index])
             ELSE findMatch(inputString, index + 1, found)

\* What _keyDown did with an event: the event, the time it came at, the
\* field editor's string and the last input time it found, the string the
\* items were matched against, the indexes the scan ended with, the index
\* handed to setSelection, the items handed to removeObjects_, the value
\* returned and whether an exception left the handler instead.
keyDownResult(event, rightNow, inputString, found, index, items, didSomething) ==
    [op |-> "keyDown", kind |-> event.kind, characters |-> event.characters,
     time |-> rightNow, previous |-> fieldEditor, lastInputTime |-> lastInputTime,
     inputString |-> inputString, matchIndex |-> found.matchIndex,
     lastResortIndex |-> found.lastResortIndex, index |-> index, items |-> items,
     consumed |-> didSomething, raised |-> found.raised]

\* The last MaxInputLength characters of s.
latest(s) ==
    IF Len(s) <= MaxInputLength THEN s
    ELSE SubSeq(s, Len(s) - MaxInputLength + 1, Len(s))

\* A variant of resetTypingEntry that leaves the field editor's string.
resetTimeOnly ==
    /\ lastInputTime' = None
    /\ UNCHANGED <<fieldEditor, typedInto>>

\* The typing entry is reset.
resetTypingEntry ==
    /\ lastInputTime' = None
    /\ fieldEditor' = <<>>
    /\ UNCHANGED typedInto

\* A variant of ignoreKey that takes the key for one that ends the typing.
ignoreKeyResettingEntry(event, rightNow) ==
    /\ resetTypingEntry
    /\ UNCHANGED <<content, selectionIndexes>>
    /\ ret' = keyDownResult(event, rightNow, <<>>, NoMatch, None, {}, FALSE)

\* No branch of _keyDown has returned: return False.
ignoreKey(event, rightNow) ==
    /\ UNCHANGED <<content, selectionIndexes, typing>>
    /\ ret' = keyDownResult(event, rightNow, <<>>, NoMatch, None, {}, FALSE)

\* A variant of matchOrLastResort that asks for the last resort first.
lastResortOrMatch(found) ==
    IF found.lastResortIndex # None THEN found.lastResortIndex ELSE found.matchIndex

\* The index the scan hands to setSelection: matchIndex if there is one,
\* else lastResortIndex, else none.
matchOrLastResort(found) ==
    IF found.matchIndex # None THEN found.matchIndex ELSE found.lastResortIndex

\* _keyDown(event), the event arriving at time rightNow.
KeyDown(event, rightNow) ==
    /\ now' = rightNow
    /\ UNCHANGED <<sortDescriptors, settings, editCallback, otherList>>
    /\ IF event.kind = "delete"
       THEN IF enableDelete
            THEN /\ content' = _removeSelection
                 /\ selectionIndexes' = {}
                 /\ UNCHANGED typing
                 /\ ret' = keyDownResult(event, rightNow, <<>>, NoMatch, None,
                                         selectedItems, TRUE)
            ELSE ignoreKey(event, rightNow)
       ELSE IF event.kind = "nonCharacter"
       THEN /\ IF typingSensitive THEN resetTypingEntry ELSE UNCHANGED typing
            /\ UNCHANGED <<content, selectionIndexes>>
            /\ ret' = keyDownResult(event, rightNow, <<>>, NoMatch, None, {}, FALSE)
       ELSE IF typingSensitive
       THEN LET last == IF lastInputTime = None THEN rightNow ELSE lastInputTime
                kept == IF isTooLongAgo(rightNow, last) THEN <<>> ELSE fieldEditor
                inputString == kept \o event.characters
                found == findMatch(inputString, 0, NoMatch)
                index == IF found.raised THEN None ELSE matchOrLastResort(found)
            IN  /\ Len(inputString) <= MaxInputLength
                /\ lastInputTime' = rightNow
                /\ fieldEditor' = inputString
                /\ typedInto' = latest(typedInto \o event.characters)
                /\ UNCHANGED content
                /\ selectionIndexes' = IF index # None THEN setSelection(<<index>>).value
                                       ELSE selectionIndexes
                /\ ret' = keyDownResult(event, rightNow, inputString, found, index, {},
                                        index # None)
       ELSE ignoreKey(event, rightNow)

\* The three kinds of key events.
DeleteKey(rightNow) == KeyDown([kind |-> "delete", characters |-> <<>>], rightNow)

NavigationKey(rightNow) == KeyDown([kind |-> "nonCharacter", characters |-> <<>>], rightNow)

PrintableKey(characters, rightNow) ==
    KeyDown([kind |-> "character", characters |-> characters], rightNow)

---------------------------------------------------------------------------
(* The type-ahead search: printable keys on a typing-sensitive list *)

TypeAheadValues == {Str(chars) : chars \in Strings} \cup {Number}

InitTypeAhead ==
    /\ content \in Collections(TypeAheadValues)
    /\ sortDescriptors \in SortSpecifications
    /\ sortDescriptors # <<>> => \A k \in 1 .. Len(content) : isString(content[k].item)
    /\ selectionIndexes = {}
    /\ fieldEditor = <<>>
    /\ lastInputTime = None
    /\ now = 0
    /\ enableDelete = FALSE
    /\ typingSensitive = TRUE
    /\ editCallback = FALSE
    /\ typedInto = <<>>
    /\ otherList = NoOtherList
    /\ ret = Idle

NextTypeAhead == \E characters \in Characters : PrintableKey(characters, now)

SpecTypeAhead == InitTypeAhead /\ [][NextTypeAhead]_vars

---------------------------------------------------------------------------
(* The input buffer over time: any key at any later time *)

IdleCollections == {Wrap(<<Str(<<1>>), Str(<<1, 2>>), Str(<<2, 2>>)>>)}

InitIdle ==
    /\ content \in IdleCollections
    /\ sortDescriptors = <<>>
    /\ selectionIndexes = {}
    /\ fieldEditor = <<>>
    /\ lastInputTime = None
    /\ now = 0
    /\ enableDelete = FALSE
    /\ typingSensitive \in BOOLEAN
    /\ editCallback = FALSE
    /\ typedInto = <<>>
    /\ otherList = NoOtherList
    /\ ret = Idle

NextIdle ==
    \/ \E rightNow \in now .. MaxTime : DeleteKey(rightNow)
    \/ \E rightNow \in now .. MaxTime : NavigationKey(rightNow)
    \/ \E rightNow \in now .. MaxTime :
           \E characters \in Characters : PrintableKey(characters, rightNow)

SpecIdle == InitIdle /\ [][NextIdle]_vars

---------------------------------------------------------------------------
(* Items without the column of the search *)

MalformedValues == {Str(<<1>>), Str(<<1, 2>>), Str(<<2>>), Missing}

InitMalformed ==
    /\ content \in Collections(MalformedValues)
    /\ sortDescriptors = <<>>
    /\ selectionIndexes = {}
    /\ fieldEditor = <<>>
    /\ lastInputTime = None
    /\ now = 0
    /\ enableDelete = FALSE
    /\ typingSensitive = TRUE
    /\ editCallback = FALSE
    /\ typedInto = <<>>
    /\ otherList = NoOtherList
    /\ ret = Idle

NextMalformed == \E characters \in Characters : PrintableKey(characters, now)

SpecMalformed == InitMalformed /\ [][NextMalformed]_vars

---------------------------------------------------------------------------
(* Two lists in one window *)

\* This list, as it is kept while the other list of the window has the keys.
thisList ==
    [content |-> content, sortDescriptors |-> sortDescriptors,
     selectionIndexes |-> selectionIndexes, lastInputTime |-> lastInputTime,
     typedInto |-> typedInto, enableDelete |-> enableDelete,
     typingSensitive |-> typingSensitive, editCallback |-> editCallback]

\* The other list of the window becomes the first responder: the key events
\* that follow are sent to its keyDown_, which finds self._lastInputTime and
\* the items of that list, and the field editor of the window.
SwitchList ==
    /\ otherList # NoOtherList
    /\ otherList' = thisList
    /\ content' = otherList.content
    /\ sortDescriptors' = otherList.sortDescriptors
    /\ selectionIndexes' = otherList.selectionIndexes
    /\ lastInputTime' = otherList.lastInputTime
    /\ typedInto' = otherList.typedInto
    /\ enableDelete' = otherList.enableDelete
    /\ typingSensitive' = otherList.typingSensitive
    /\ editCallback' = otherList.editCallback
    /\ ret' = [op |-> "switch"]
    /\ UNCHANGED <<fieldEditor, now>>

WindowCollections ==
    {Wrap(<<Str(<<1>>), Str(<<1, 2>>), Str(<<2, 2>>)>>),
     Wrap(<<Str(<<2>>), Str(<<2, 1>>), Str(<<1, 1>>)>>)}

InitWindow ==
    /\ content \in WindowCollections
    /\ sortDescriptors = <<>>
    /\ selectionIndexes = {}
    /\ fieldEditor = <<>>
    /\ lastInputTime = None
    /\ now = 0
    /\ enableDelete = FALSE
    /\ typingSensitive = TRUE
    /\ editCallback = FALSE
    /\ typedInto = <<>>
    /\ otherList \in {[thisList EXCEPT !.content = collection] :
                      collection \in WindowCollections \ {content}}
    /\ ret = Idle

NextWindow ==
    \/ SwitchList
    \/ \E rightNow \in now .. MaxTime :
           \E characters \in Characters : PrintableKey(characters, rightNow)

SpecWindow == InitWindow /\ [][NextWindow]_vars

---------------------------------------------------------------------------
(* Removing items *)

ItemValues == {Str(<<1>>), Str(<<2>>), Str(<<1, 2>>)}

InitItems ==
    /\ content \in Collections(ItemValues)
    /\ sortDescriptors \in SortSpecifications
    /\ selectionIndexes = {}
    /\ fieldEditor = <<>>
    /\ lastInputTime = None
    /\ now = 0
    /\ enableDelete = FALSE
    /\ typingSensitive = FALSE
    /\ editCallback = TRUE
    /\ typedInto = <<>>
    /\ otherList = NoOtherList
    /\ ret = Idle

NextItems ==
    \/ \E index \in 0 .. MaxItems : DelItem(index)
    \/ \E item \in ItemValues : Remove(item)

SpecItems == InitItems /\ [][NextItems]_vars

---------------------------------------------------------------------------
(* Setting and editing items, in a list made with an edit callback *)

InitEdit ==
    /\ content \in Collections(ItemValues)
    /\ sortDescriptors = <<>>
    /\ selectionIndexes = {}
    /\ fieldEditor = <<>>
    /\ lastInputTime = None
    /\ now = 0
    /\ enableDelete = FALSE
    /\ typingSensitive = FALSE
    /\ editCallback = TRUE
    /\ typedInto = <<>>
    /\ otherList = NoOtherList
    /\ ret = Idle

NextEdit ==
    \/ \E index \in 0 .. MaxItems : \E value \in ItemValues : SetItem(index, value)
    \/ \E index \in 0 .. MaxItems : \E value \in ItemValues : UserEdit(index, value)

SpecEdit == InitEdit /\ [][NextEdit]_vars

---------------------------------------------------------------------------
(* Selecting and deleting *)

SelectionValues == {Str(<<1>>), Str(<<2>>)}

InitSelection ==
    /\ content \in Collections(SelectionValues)
    /\ sortDescriptors \in SortSpecifications
    /\ selectionIndexes = {}
    /\ fieldEditor = <<>>
    /\ lastInputTime = None
    /\ now = 0
    /\ enableDelete \in BOOLEAN
    /\ typingSensitive = FALSE
    /\ editCallback = FALSE
    /\ typedInto = <<>>
    /\ otherList = NoOtherList
    /\ ret = Idle

NextSelection ==
    \/ \E indexes \in SUBSET xrange(Len(content)) : SetSelection(_iterIndexSet(indexes))
    \/ GetSelection
    \/ DeleteKey(now)

SpecSelection == InitSelection /\ [][NextSelection]_vars

---------------------------------------------------------------------------
(* Properties of the index conversion, under SpecReconcile *)

validIndexes(indexes) == Range(indexes) \subseteq xrange(Len(content))

distinctIndexes(indexes) == Cardinality(Range(indexes)) = Len(indexes)

identities(array, indexes) == {At(array, index).id : index \in Range(indexes)}

C3_IdentityMapping ==
    (/\ ret.op \in {"toLogical", "toDisplayed"}
     /\ sortDescriptors = <<>>)
    => ret.result = Return(ret.arg)

\* An index list that is neither ascending nor free of repetition comes back
\* as given.
C3_Witness ==
    /\ ret.op = "toLogical"
    /\ sortDescriptors = <<>>
    /\ Len(ret.arg) = 2
    /\ ret.arg[1] >= ret.arg[2]
    /\ ret.result = Return(ret.arg)

---------------------------------------------------------------------------
(* Properties of the type-ahead search, under SpecTypeAhead *)

\* The last operation was a printable key on a typing-sensitive list.
typed == ret.op = "keyDown" /\ ret.kind = "character" /\ typingSensitive

stringIndexes == {index \in xrange(Len(content)) : isString(At(content, index).item)}

chars(index) == At(content, index).item.chars

prefixMatches(inputString) ==
    {index \in stringIndexes : startswith(chars(index), inputString)}

greaterItems(inputString) ==
    {index \in stringIndexes : StrLess(inputString, chars(index))}

\* index holds the smallest string of those at indexes, and is the first
\* index to hold it.
firstSmallest(index, indexes) ==
    /\ index \in indexes
    /\ \A other \in indexes :
           /\ ~StrLess(chars(other), chars(index))
           /\ chars(other) = chars(index) => index <= other

\* C4: when some string item starts with the input buffer, the index chosen
\* is that of the smallest such item in code-point order, the first one in
\* scan order among equal smallest ones; items that are no strings are
\* skipped.
C4_PrefixPreference ==
    (typed /\ prefixMatches(ret.inputString) # {})
    => /\ ret.consumed
       /\ firstSmallest(ret.index, prefixMatches(ret.inputString))

\* A later, smaller prefix match is preferred to an earlier one, past an item
\* that is no string, and the smallest value occurs twice.
C4_Witness ==
    /\ typed
    /\ ret.index # None
    /\ \E first \in prefixMatches(ret.inputString) :
           first < ret.index /\ StrLess(chars(ret.index), chars(first))
    /\ \E again \in prefixMatches(ret.inputString) :
           again > ret.index /\ chars(again) = chars(ret.index)
    /\ firstSmallest(ret.index, prefixMatches(ret.inputString))

\* The same with a non-string item scanned before the match.
C4_WitnessSkipped ==
    /\ typed
    /\ ret.index # None
    /\ prefixMatches(ret.inputString) # {}
    /\ \E index \in xrange(Len(content)) :
           index < ret.index /\ index \notin stringIndexes

\* C5: when no string item starts with the input buffer, the index chosen is
\* that of the smallest string strictly greater than the buffer, the first
\* one on ties; when there is none either, no selection is made and the
\* event is not consumed.
C5_Fallback ==
    [][(/\ ret'.op = "keyDown"
        /\ ret'.kind = "character"
        /\ typingSensitive
        /\ prefixMatches(ret'.inputString) = {})
       => IF greaterItems(ret'.inputString) # {}
          THEN /\ ret'.consumed
               /\ firstSmallest(ret'.index, greaterItems(ret'.inputString))
          ELSE /\ ~ret'.consumed
               /\ ret'.index = None
               /\ selectionIndexes' = selectionIndexes]_vars

\* The fallback picks a later, smaller item among the greater ones, past an
\* item smaller than the buffer.
C5_Witness ==
    /\ typed
    /\ prefixMatches(ret.inputString) = {}
    /\ ret.index # None
    /\ \E first \in greaterItems(ret.inputString) :
           first < ret.index /\ StrLess(chars(ret.index), chars(first))
    /\ \E smaller \in stringIndexes : StrLess(chars(smaller), ret.inputString)
    /\ firstSmallest(ret.index, greaterItems(ret.inputString))

\* C6: after a printable key is consumed, the selection is the one item the
\* search chose: one row is selected, it shows the chosen item, and
\* getSelection() returns the index chosen.
C6_SelectionIsChosenItem ==
    (typed /\ ret.consumed)
    => /\ Cardinality(selectionIndexes) = 1
       /\ \A row \in selectionIndexes :
              At(arrangedObjects, row) = At(content, ret.index)
       /\ getSelection = Return(<<ret.index>>)

---------------------------------------------------------------------------
(* Properties of selecting and deleting, under SpecSelection *)

\* C7: setSelection(S) followed by getSelection() returns S, as a set.
C7_SelectionRoundTrip ==
    [][(ret.op = "setSelection" /\ ret'.op = "getSelection")
       => /\ ~ret'.result.raised
          /\ Range(ret'.result.value) = Range(ret.arg)]_vars

\* The objects shown at the selected rows.
selectedObjects == {At(arrangedObjects, row) : row \in selectionIndexes}

---------------------------------------------------------------------------
(* Properties of the input buffer, under SpecIdle *)

\* C8: a printable key that comes more than 0.75 s after the previous
\* printable key is matched against its own characters alone, one that comes
\* within 0.75 s against the previous buffer with its characters appended.
\* (After a printable key the last input time and the field editor's string
\* are the time and the buffer of that key.)
C8_IdleReset ==
    [][(ret'.op = "keyDown" /\ ret'.kind = "character" /\ typingSensitive)
       => /\ (ret.op = "keyDown" /\ ret.kind = "character")
                 => lastInputTime = ret.time /\ fieldEditor = ret.inputString
          /\ lastInputTime # None
                 => ret'.inputString =
                        IF ret'.time - lastInputTime > IdleTimeout
                        THEN ret'.characters
                        ELSE fieldEditor \o ret'.characters]_vars

\* A key more than 0.75 s after a key that left a buffer is matched alone.
C8_Witness ==
    /\ typed
    /\ ret.lastInputTime # None
    /\ ret.time - ret.lastInputTime > IdleTimeout
    /\ ret.previous # <<>>
    /\ ret.inputString = ret.characters

\* A key exactly 0.75 s after the previous one is appended to its buffer.
C8_WitnessAppended ==
    /\ typed
    /\ ret.lastInputTime # None
    /\ ret.time - ret.lastInputTime = IdleTimeout
    /\ ret.previous # <<>>
    /\ ret.inputString = ret.previous \o ret.characters

\* C9: a navigation key on a typing-sensitive list empties the buffer, resets
\* the last input time and is not consumed; the printable key that follows is
\* matched against its own characters alone, whenever it comes.
C9_NavigationResets ==
    [][/\ (ret'.op = "keyDown" /\ ret'.kind = "nonCharacter" /\ typingSensitive)
          => /\ fieldEditor' = <<>>
             /\ lastInputTime' = None
             /\ ~ret'.consumed
       /\ (/\ ret.op = "keyDown" /\ ret.kind = "nonCharacter"
           /\ ret'.op = "keyDown" /\ ret'.kind = "character"
           /\ typingSensitive)
          => ret'.inputString = ret'.characters]_vars

\* A printable key right after a navigation key that found a buffer, within
\* 0.75 s of the printable key before it.
C9_Witness ==
    /\ ret.op = "keyDown"
    /\ ret.kind = "nonCharacter"
    /\ typingSensitive
    /\ ret.previous # <<>>
    /\ ret.lastInputTime # None
    /\ ret.time - ret.lastInputTime <= IdleTimeout
    /\ fieldEditor = <<>>
    /\ lastInputTime = None

\* C11: a delete key with deletion disabled is not consumed and leaves the
\* collection, the selection and the input buffer (the field editor's string
\* and the last input time) as they were, typing-sensitive list or not.
C11_DisabledDeleteIgnored ==
    [][(ret'.op = "keyDown" /\ ret'.kind = "delete" /\ ~enableDelete)
       => /\ ~ret'.consumed
          /\ UNCHANGED <<content, selectionIndexes, fieldEditor, lastInputTime>>]_vars

\* A delete key that found an item selected and characters in the buffer.
C11_Witness ==
    /\ ret.op = "keyDown"
    /\ ret.kind = "delete"
    /\ ~enableDelete
    /\ ~ret.consumed
    /\ selectionIndexes # {}
    /\ ret.previous # <<>>
    /\ fieldEditor = ret.previous
    /\ lastInputTime = ret.lastInputTime
    /\ lastInputTime # None

---------------------------------------------------------------------------
(* Properties of removing items, under SpecItems *)

\* s with s[index] deleted, as del s[index] leaves a Python list.
deleted(s, index) ==
    [k \in 1 .. Len(s) - 1 |-> IF k <= index THEN s[k] ELSE s[k + 1]]

\* The first index of the value item in get().
firstOccurrence(item) ==
    CHOOSE i \in xrange(Len(content)) :
        /\ At(get, i) = item
        /\ \A j \in xrange(i) : At(get, j) # item

\* C12: under every sort specification del list[i] with a valid index i
\* removes exactly the item at the logical index i, so that get() afterwards
\* is the previous get() without its i-th element; remove(x) does the same
\* for the first occurrence of x in the logical order.
C12_RemovesLogicalItem ==
    [][/\ (ret'.op = "delitem" /\ ret'.arg \in xrange(Len(content)))
          => /\ ~ret'.raised
             /\ content' = deleted(content, ret'.arg)
             /\ get' = deleted(get, ret'.arg)
       /\ (ret'.op = "remove" /\ \E i \in xrange(Len(content)) : At(get, i) = ret'.arg)
          => /\ ~ret'.raised
             /\ content' = deleted(content, firstOccurrence(ret'.arg))
             /\ get' = deleted(get, firstOccurrence(ret'.arg))]_vars

\* An item was removed from a collection whose rows a sort shows in another
\* order than the logical one.
C12_Witness ==
    /\ ret.op \in {"delitem", "remove"}
    /\ ~ret.raised
    /\ sortDescriptors # <<>>
    /\ Len(content) = MaxItems - 1
    /\ arrangedObjects # content

---------------------------------------------------------------------------
(* Properties of two lists in one window, under SpecWindow *)

\* s ends with suffix.
endswith(s, suffix) ==
    /\ Len(suffix) <= Len(s)
    /\ SubSeq(s, Len(s) - Len(suffix) + 1, Len(s)) = suffix

\* C13: the string a typing-sensitive list matches its items against is made
\* of characters typed into that list only: it is an end of the characters
\* that list was sent, whatever was typed into the other list of the window.
C13_BufferOfOwnCharacters ==
    typed => endswith(typedInto, ret.inputString)

---------------------------------------------------------------------------
(* Properties of items without the column, under SpecMalformed *)

\* C14: an item that has no value under the column of the search is skipped
\* and the scan goes on: the key handler does not fail, and the index it
\* chooses is the one the items that are strings give.
C14_MalformedItemSkipped ==
    (typed /\ \E index \in xrange(Len(content)) : ~hasColumn(At(content, index).item))
    => /\ ~ret.raised
       /\ prefixMatches(ret.inputString) # {}
          => firstSmallest(ret.index, prefixMatches(ret.inputString))
       /\ (prefixMatches(ret.inputString) = {} /\ greaterItems(ret.inputString) # {})
          => firstSmallest(ret.index, greaterItems(ret.inputString))

---------------------------------------------------------------------------
(* Properties of stale indexes, under SpecReconcile *)

\* The indexes of a call that are indexes of the collection.
currentIndexes(indexes) ==
    SelectSeq(indexes, LAMBDA index : index \in xrange(Len(content)))

\* C15: with a sort active, a conversion in either direction that is given
\* an index the collection no longer has (an index at or past its length)
\* returns normally, with the result of the indexes the collection still has
\* and the stale one left out.
C15_StaleIndexOmitted ==
    /\ (ret.op = "toLogical" /\ sortDescriptors # <<>> /\ ~validIndexes(ret.arg))
       => /\ ~ret.result.raised
          /\ ret.result = _getUnsortedIndexesFromSortedIndexes(currentIndexes(ret.arg))
    /\ (ret.op = "toDisplayed" /\ sortDescriptors # <<>> /\ ~validIndexes(ret.arg))
       => /\ ~ret.result.raised
          /\ ret.result = _getSortedIndexesFromUnsortedIndexes(currentIndexes(ret.arg))

---------------------------------------------------------------------------
(* Properties of the edit callback, under SpecEdit *)

\* C16: the edit callback given at construction is taken away only while
\* __setitem__ runs: after any operations on the list, a __setitem__ that
\* raised among them, it is installed, and an edit by the user calls it.
C16_EditCallbackInstalled ==
    /\ editCallback
    /\ ret.op = "edit" => ret.called

---------------------------------------------------------------------------
(* The search as one rule, under SpecTypeAhead *)

\* The indexes of the string items that are not smaller than inputString.
itemsNotSmaller(inputString) ==
    {index \in stringIndexes : ~StrLess(chars(index), inputString)}

\* C17: the search in two levels is one rule: a printable key on a
\* typing-sensitive list is consumed exactly when some string item is not
\* smaller than the input buffer, and the index chosen is that of the
\* smallest such item, the first one on ties; no item that starts with the
\* buffer is larger than an item that is greater than the buffer and does
\* not start with it.
C17_SingleRule ==
    typed
    => /\ ret.consumed <=> itemsNotSmaller(ret.inputString) # {}
       /\ itemsNotSmaller(ret.inputString) # {}
          => firstSmallest(ret.index, itemsNotSmaller(ret.inputString))
       /\ \A index \in prefixMatches(ret.inputString) :
              \A greater \in greaterItems(ret.inputString) \ prefixMatches(ret.inputString) :
                  StrLess(chars(index), chars(greater))

\* A key was consumed with a prefix match chosen although an item that is
\* greater than the buffer and no prefix match comes before it in the list,
\* and a prefix match greater than the buffer was seen before the one chosen.
C17_Witness ==
    /\ typed
    /\ ret.consumed
    /\ ret.index # None
    /\ ret.index \in prefixMatches(ret.inputString)
    /\ \E index \in greaterItems(ret.inputString) \ prefixMatches(ret.inputString) :
           index < ret.index
    /\ ret.lastResortIndex # None
    /\ ret.lastResortIndex \in prefixMatches(ret.inputString)

====
